---- MODULE Spec2Model ----
(***************************************************************************)
(* A model of two utilities of the repository:                             *)
(*   torch/nn/quantized/_reference/modules/utils.py                        *)
(*       the weight quantization parameters of a reference quantized       *)
(*       module: construction, quantize, quantize-and-dequantize, and the  *)
(*       saving and loading of the parameters in a state dict;             *)
(*   torch/fx/passes/graph_drawer.py                                       *)
(*       FxGraphDrawer, which renders a traced module as pydot graphs.     *)
(*                                                                         *)
(* Conventions.  A string key prefix + name is the pair <<prefix, name>>.  *)
(* A tensor of scales or zero points is the sequence of its elements (a    *)
(* scalar tensor has one element).  A weight is a 2 x 2 matrix of          *)
(* integers, a sequence of rows.  Python's None is the string "None".      *)
(***************************************************************************)
EXTENDS Integers, Sequences, FiniteSets, TLC

VARIABLES
    \* calls of the module-level functions of utils.py
    fpc,          \* "idle", or the function that has just returned
    call,         \* the arguments of that call
    fret,         \* what it returned or raised
    destination,  \* the map _save_weight_qparams writes into
    obj,          \* the object the consumed keys are assigned onto
    \* a ReferenceQuantizedModule
    attrs,        \* its attributes, by name
    buffers,      \* the names registered as buffers
    state_dict,   \* the state dict it is saved to and loaded from
    mret,         \* the last method called and how it ended
    \* an FxGraphDrawer
    dpc,          \* "idle"; "new", then "drawn" or "failed"
    drawer_name,  \* self._name
    graph_module, \* the traced module handed to the constructor
    ignore_getattr,
    dot_graphs,   \* self._dot_graphs
    dret          \* the result of the last getter

fvars == <<fpc, call, fret, destination, obj>>
mvars == <<attrs, buffers, state_dict, mret>>
dvars == <<dpc, drawer_name, graph_module, ignore_getattr, dot_graphs, dret>>
vars == <<fvars, mvars, dvars>>

-----------------------------------------------------------------------------
(* Bounds of the model *)

MaxScale == 2
MaxZeroPoint == 1
MaxBody == 2

-----------------------------------------------------------------------------
(* Values *)

None == "None"
per_tensor_affine == "torch.per_tensor_affine"
per_channel_affine == "torch.per_channel_affine"
per_channel_affine_float_qparams == "torch.per_channel_affine_float_qparams"
per_tensor_symmetric == "torch.per_tensor_symmetric"
\* the function torch.quantize_per_channel, which utils.py line 141 compares
\* a qscheme against; it is no qscheme
torch_quantize_per_channel == "torch.quantize_per_channel"

QSchemes == {None, per_tensor_affine, per_channel_affine,
             per_channel_affine_float_qparams, per_tensor_symmetric}
PerChannelSchemes == {per_channel_affine, per_channel_affine_float_qparams}

quint8 == "torch.quint8"
qint8 == "torch.qint8"
float16 == "torch.float16"
float32 == "torch.float32"
DTypes == {quint8, qint8, float16, float32}

EmptyMap == [k \in {} |-> None]
MapPut(m, k, v) == [x \in DOMAIN m \cup {k} |-> IF x = k THEN v ELSE m[x]]
MapDel(m, k) == [x \in DOMAIN m \ {k} |-> m[x]]

\* the weights: rows of elements with a tie at scale 2 (-5, 3), values outside
\* both integer ranges (2049, and -5 for quint8) and one float16 cannot hold
\* (2049)
WeightRows == {<<-5, 3>>, <<2049, 3>>, <<3, 2049>>}
Rows == 1..2
Cols == 1..2
Weights == [Rows -> WeightRows]

ScaleVals == 1..MaxScale
ZeroPointVals == 0..MaxZeroPoint

\* the parameter sets handed to the functions: one scale and zero point for
\* the per-tensor schemes and for None, one per channel otherwise
QParamInputs ==
    [qscheme : QSchemes \ PerChannelSchemes, dtype : DTypes,
     scale : [1..1 -> ScaleVals], zero_point : [1..1 -> ZeroPointVals],
     axis : {0}]
    \cup
    [qscheme : PerChannelSchemes, dtype : DTypes,
     scale : [1..2 -> ScaleVals], zero_point : [1..2 -> ZeroPointVals],
     axis : {0, 1}]

Prefixes == {"", "fc."}

-----------------------------------------------------------------------------
(* The tensor library, as far as utils.py calls it *)

\* round to nearest, ties to even (nearbyint), of n / d for d > 0
RoundHalfEven(n, d) ==
    LET q == n \div d
        r == n % d
    IN  IF 2 * r < d THEN q
        ELSE IF 2 * r > d THEN q + 1
        ELSE IF q % 2 = 0 THEN q ELSE q + 1

QMin(dtype) == IF dtype = quint8 THEN 0 ELSE -128
QMax(dtype) == IF dtype = quint8 THEN 255 ELSE 127
Clamp(v, lo, hi) == IF v < lo THEN lo ELSE IF v > hi THEN hi ELSE v

QuantizeVal(x, s, z, dtype) ==
    Clamp(RoundHalfEven(x, s) + z, QMin(dtype), QMax(dtype))

Abs(x) == IF x < 0 THEN -x ELSE x

\* float32 -> float16 of an integer below 4096 in magnitude: 11 significant
\* bits, so exact up to 2048 and a multiple of 2 (ties to even) above
ToHalf(x) == IF Abs(x) <= 2048 THEN x ELSE 2 * RoundHalfEven(x, 2)

LibraryError(msg) == [kind |-> "error", error |-> "RuntimeError", msg |-> msg]

FloatTensor(dtype, data) == [kind |-> "float", dtype |-> dtype, data |-> data]

\* torch.quantize_per_tensor(weight, scale, zero_point, dtype) with tensor
\* scale and zero point, which must hold one element each
quantize_per_tensor(weight, scale, zero_point, dtype) ==
    IF Len(scale) # 1 \/ Len(zero_point) # 1
    THEN LibraryError("scale and zero point must have one element")
    ELSE [kind |-> "quantized", qscheme |-> per_tensor_affine, dtype |-> dtype,
          int_repr |-> [i \in Rows |-> [j \in Cols |->
              QuantizeVal(weight.data[i][j], scale[1], zero_point[1], dtype)]],
          scale |-> scale, zero_point |-> zero_point, axis |-> 0]

\* torch.quantize_per_channel(weight, scales, zero_points, axis, dtype)
quantize_per_channel(weight, scale, zero_point, axis, dtype) ==
    IF axis \notin {0, 1}
    THEN LibraryError("axis out of range")
    ELSE IF Len(scale) # 2 \/ Len(zero_point) # 2
    THEN LibraryError("scales and zero points must match the channels")
    ELSE [kind |-> "quantized", qscheme |-> per_channel_affine, dtype |-> dtype,
          int_repr |-> [i \in Rows |-> [j \in Cols |->
              LET c == IF axis = 0 THEN i ELSE j
              IN  QuantizeVal(weight.data[i][j], scale[c], zero_point[c], dtype)]],
          scale |-> scale, zero_point |-> zero_point, axis |-> axis]

\* Tensor.to(dtype), for the one dtype utils.py casts to
to(weight, dtype) ==
    FloatTensor(dtype, [i \in Rows |-> [j \in Cols |-> ToHalf(weight.data[i][j])]])

\* Tensor.dequantize(): (q - zero_point) * scale of a quantized tensor, a
\* cast to float32 of any other
dequantize(t) ==
    IF t.kind = "float" THEN FloatTensor(float32, t.data)
    ELSE FloatTensor(float32, [i \in Rows |-> [j \in Cols |->
        LET c == IF t.qscheme = per_tensor_affine THEN 1
                 ELSE IF t.axis = 0 THEN i ELSE j
        IN  (t.int_repr[i][j] - t.zero_point[c]) * t.scale[c]]])

-----------------------------------------------------------------------------
(* The module-level functions of utils.py *)

Raise(msg) == [kind |-> "error", error |-> "Exception", msg |-> msg]
KeyError(key) == [kind |-> "error", error |-> "KeyError", key |-> key]

\* _quantize_weight with float16 accepted, as a cast, for the per-channel schemes too
_quantize_weight_half_per_channel(weight, weight_qscheme, weight_dtype, weight_scale, weight_zero_point, weight_axis) ==
    IF weight_qscheme \in {per_tensor_affine, per_channel_affine, per_channel_affine_float_qparams}
          /\ weight_dtype = float16
    THEN to(weight, weight_dtype)
    ELSE IF weight_qscheme = per_tensor_affine
    THEN IF weight_dtype \in {quint8, qint8}
         THEN quantize_per_tensor(weight, weight_scale, weight_zero_point, weight_dtype)
         ELSE Raise("Unsupported dtype")
    ELSE IF weight_qscheme \in {per_channel_affine, per_channel_affine_float_qparams}
    THEN IF weight_dtype \in {quint8, qint8}
         THEN quantize_per_channel(weight, weight_scale, weight_zero_point,
                                   weight_axis, weight_dtype)
         ELSE Raise("Unsupported dtype")
    ELSE Raise("Unsupported qscheme")

_quantize_weight(weight, weight_qscheme, weight_dtype, weight_scale, weight_zero_point, weight_axis) ==
    IF weight_qscheme = per_tensor_affine
    THEN IF weight_dtype \in {quint8, qint8}
         THEN quantize_per_tensor(weight, weight_scale, weight_zero_point, weight_dtype)
         ELSE IF weight_dtype = float16
         THEN to(weight, weight_dtype)
         ELSE Raise("Unsupported dtype")
    ELSE IF weight_qscheme \in {per_channel_affine, per_channel_affine_float_qparams}
    THEN IF weight_dtype \in {quint8, qint8}
         THEN quantize_per_channel(weight, weight_scale, weight_zero_point,
                                   weight_axis, weight_dtype)
         ELSE Raise("Unsupported dtype")
    ELSE Raise("Unsupported qscheme")

\* _quantize_and_dequantize_weight with per_channel_affine_float_qparams left
\* out of the schemes it quantizes
_quantize_and_dequantize_weight_two_schemes(weight, weight_qscheme, weight_dtype, weight_scale, weight_zero_point, weight_axis) ==
    IF weight_qscheme \in {per_tensor_affine, per_channel_affine}
    THEN LET weight_quant == _quantize_weight(weight, weight_qscheme, weight_dtype,
                                 weight_scale, weight_zero_point, weight_axis)
         IN  IF weight_quant.kind = "error" THEN weight_quant
             ELSE dequantize(weight_quant)
    ELSE weight

_quantize_and_dequantize_weight(weight, weight_qscheme, weight_dtype, weight_scale, weight_zero_point, weight_axis) ==
    IF weight_qscheme \in {per_tensor_affine, per_channel_affine,
                           per_channel_affine_float_qparams}
    THEN LET weight_quant == _quantize_weight(weight, weight_qscheme, weight_dtype,
                                 weight_scale, weight_zero_point, weight_axis)
         IN  IF weight_quant.kind = "error" THEN weight_quant
             ELSE dequantize(weight_quant)
    ELSE weight

\* _save_weight_qparams writing the axis for both per-channel schemes
_save_weight_qparams_axis_both(dest, prefix, weight_qscheme, weight_dtype, weight_scale, weight_zero_point, weight_axis) ==
    LET d1 == MapPut(dest, <<prefix, "weight_qscheme">>, weight_qscheme)
        d2 == MapPut(d1, <<prefix, "weight_dtype">>, weight_dtype)
        d3 == MapPut(d2, <<prefix, "weight_scale">>, weight_scale)
        d4 == MapPut(d3, <<prefix, "weight_zero_point">>, weight_zero_point)
        d5 == MapPut(d4, <<prefix, "weight_axis">>, weight_axis)
    IN  IF weight_qscheme # None
        THEN IF weight_qscheme \in {per_channel_affine, per_channel_affine_float_qparams}
             THEN d5 ELSE d4
        ELSE d2

_save_weight_qparams(dest, prefix, weight_qscheme, weight_dtype, weight_scale, weight_zero_point, weight_axis) ==
    LET d1 == MapPut(dest, <<prefix, "weight_qscheme">>, weight_qscheme)
        d2 == MapPut(d1, <<prefix, "weight_dtype">>, weight_dtype)
        d3 == MapPut(d2, <<prefix, "weight_scale">>, weight_scale)
        d4 == MapPut(d3, <<prefix, "weight_zero_point">>, weight_zero_point)
        d5 == MapPut(d4, <<prefix, "weight_axis">>, weight_axis)
    IN  IF weight_qscheme # None
        THEN IF weight_qscheme = per_channel_affine THEN d5 ELSE d4
        ELSE d2

Keys(keys) == [kind |-> "keys", keys |-> keys]

\* the list of keys, or the KeyError of line 137
_get_weight_qparam_keys(sd, prefix) ==
    LET keys == <<"weight_qscheme", "weight_dtype">>
    IN  IF <<prefix, "weight_qscheme">> \notin DOMAIN sd
        THEN KeyError(<<prefix, "weight_qscheme">>)
        ELSE LET weight_qscheme == sd[<<prefix, "weight_qscheme">>]
             IN  IF weight_qscheme # None
                 THEN LET keys2 == keys \o <<"weight_scale", "weight_zero_point">>
                      IN  IF weight_qscheme = torch_quantize_per_channel
                          THEN Keys(Append(keys2, "weight_axis"))
                          ELSE Keys(keys2)
                 ELSE Keys(keys)

\* The loop of _load_from_state_dict (lines 69-71) from where it stands: each
\* key in turn is assigned onto the attributes o and popped from sd, and a
\* missing key raises there.
RECURSIVE LoadKeys(_, _, _, _)
LoadKeys(keys, o, sd, prefix) ==
    IF keys = <<>> THEN [attrs |-> o, sd |-> sd, error |-> None]
    ELSE LET k == <<prefix, Head(keys)>>
         IN  IF k \notin DOMAIN sd
             THEN [attrs |-> o, sd |-> sd, error |-> "KeyError"]
             ELSE LoadKeys(Tail(keys), MapPut(o, Head(keys), sd[k]),
                           MapDel(sd, k), prefix)

LoadLoop(o, sd, prefix) ==
    LET got == _get_weight_qparam_keys(sd, prefix)
    IN  IF got.kind = "error"
        THEN [attrs |-> o, sd |-> sd, error |-> "KeyError"]
        ELSE LoadKeys(got.keys, o, sd, prefix)

QParamNames == {"weight_qscheme", "weight_dtype", "weight_scale",
                "weight_zero_point", "weight_axis"}

\* a persisted record of p under prefix, whole
Persisted(p, prefix) ==
    [k \in {<<prefix, n>> : n \in QParamNames} |->
        CASE k[2] = "weight_qscheme" -> p.qscheme
          [] k[2] = "weight_dtype" -> p.dtype
          [] k[2] = "weight_scale" -> p.scale
          [] k[2] = "weight_zero_point" -> p.zero_point
          [] OTHER -> p.axis]

-----------------------------------------------------------------------------
(* Calls of the functions, each on inputs of its own *)

NoCall == [fn |-> None]

\* what a destination map may hold before a save: nothing, an entry of
\* another module, or a stale axis under the key about to be written or not
DestInputs(prefix) ==
    { EmptyMap,
      MapPut(EmptyMap, <<"other.", "weight_scale">>, <<MaxScale>>),
      MapPut(EmptyMap, <<prefix, "weight_axis">>, 1) }

InitFn ==
    /\ fpc = "idle"
    /\ call = NoCall
    /\ fret = None
    /\ destination = EmptyMap
    /\ obj = EmptyMap
    /\ attrs = EmptyMap
    /\ buffers = {}
    /\ state_dict = EmptyMap
    /\ mret = None
    /\ dpc = "idle"
    /\ drawer_name = None
    /\ graph_module = None
    /\ ignore_getattr = FALSE
    /\ dot_graphs = EmptyMap
    /\ dret = None

CallQuantizeWeight ==
    /\ fpc = "idle"
    /\ \E w \in Weights, p \in QParamInputs :
          /\ call' = [fn |-> "_quantize_weight", weight |-> w, qparams |-> p]
          /\ fret' = _quantize_weight(FloatTensor(float32, w), p.qscheme, p.dtype,
                                      p.scale, p.zero_point, p.axis)
    /\ fpc' = "quantized"
    /\ UNCHANGED <<destination, obj, mvars, dvars>>

CallQuantizeAndDequantizeWeight ==
    /\ fpc = "idle"
    /\ \E w \in Weights, p \in QParamInputs :
          /\ call' = [fn |-> "_quantize_and_dequantize_weight",
                      weight |-> w, qparams |-> p]
          /\ fret' = _quantize_and_dequantize_weight(FloatTensor(float32, w),
                         p.qscheme, p.dtype, p.scale, p.zero_point, p.axis)
    /\ fpc' = "fake_quantized"
    /\ UNCHANGED <<destination, obj, mvars, dvars>>

CallSaveWeightQparams ==
    /\ fpc = "idle"
    /\ \E prefix \in Prefixes, p \in QParamInputs :
         \E d \in DestInputs(prefix) :
          /\ call' = [fn |-> "_save_weight_qparams", dest |-> d,
                      prefix |-> prefix, qparams |-> p]
          /\ destination' = _save_weight_qparams(d, prefix, p.qscheme, p.dtype,
                                p.scale, p.zero_point, p.axis)
    /\ fret' = None
    /\ fpc' = "saved"
    /\ UNCHANGED <<obj, mvars, dvars>>

\* the saved map is loaded back, under the same prefix, onto a fresh object
CallLoadOntoFresh ==
    /\ fpc = "saved"
    /\ LET r == LoadLoop(EmptyMap, destination, call.prefix)
       IN  /\ obj' = r.attrs
           /\ destination' = r.sd
           /\ fret' = r.error
    /\ fpc' = "loaded"
    /\ UNCHANGED <<call, mvars, dvars>>

FReturn ==
    /\ fpc # "idle"
    /\ fpc' = "idle"
    /\ call' = NoCall
    /\ fret' = None
    /\ destination' = EmptyMap
    /\ obj' = EmptyMap
    /\ UNCHANGED <<mvars, dvars>>

NextFn ==
    \/ CallQuantizeWeight
    \/ CallQuantizeAndDequantizeWeight
    \/ CallSaveWeightQparams
    \/ CallLoadOntoFresh
    \/ FReturn

SpecFn == InitFn /\ [][NextFn]_vars

-----------------------------------------------------------------------------
(* A ReferenceQuantizedModule *)

\* the weight_qparams handed to the constructor when it is not None: the
\* zero points are 0 and the first channel's scale is 1
ModQParams ==
    {p \in QParamInputs :
        /\ p.dtype \in {qint8, float16}
        /\ \A i \in DOMAIN p.zero_point : p.zero_point[i] = 0
        /\ Len(p.scale) = 2 => p.scale[1] = 1}

\* weight_qparams is None
NoQParams == [none |-> TRUE]

ModWeight == <<<<-5, 3>>, <<2049, 3>>>>

\* the state dicts a load may meet: empty, a whole record, or a record with
\* one key missing
StateDictInputs ==
    {EmptyMap}
    \cup {Persisted(p, "fc.") : p \in ModQParams}
    \cup {MapDel(Persisted(p, "fc."), <<"fc.", n>>) : p \in ModQParams, n \in QParamNames}

\* _init_weight_qparams on a module that holds weight: the attributes, the
\* registered buffers and how the constructor ended
_init_weight_qparams(weight_qparams) ==
    LET qp == IF weight_qparams = NoQParams
              THEN [qscheme |-> per_tensor_affine, dtype |-> quint8,
                    scale |-> <<1>>, zero_point |-> <<0>>]
              ELSE weight_qparams
        a0 == MapPut(EmptyMap, "weight", ModWeight)
        a1 == MapPut(a0, "weight_qscheme", qp.qscheme)
        a2 == MapPut(a1, "weight_dtype", qp.dtype)
        a3 == MapPut(a2, "weight_scale", qp.scale)
        a4 == MapPut(a3, "weight_zero_point", qp.zero_point)
    IN  IF qp.qscheme \notin {None, per_tensor_affine, per_channel_affine}
        THEN [attrs |-> a2, buffers |-> {}, error |-> "AssertionError"]
        ELSE IF qp.qscheme # None
        THEN [attrs |-> MapPut(a4, "weight_axis",
                           IF qp.qscheme = per_channel_affine THEN qp.axis ELSE 0),
              buffers |-> {"weight_scale", "weight_zero_point", "weight_axis"},
              error |-> None]
        ELSE [attrs |-> a2, buffers |-> {}, error |-> None]

InitMod ==
    /\ \E qp \in {NoQParams} \cup ModQParams :
         LET r == _init_weight_qparams(qp)
         IN  /\ attrs = r.attrs
             /\ buffers = r.buffers
             /\ mret = [op |-> "__init__", error |-> r.error, weight_qparams |-> qp]
    /\ state_dict \in StateDictInputs
    /\ fpc = "idle"
    /\ call = NoCall
    /\ fret = None
    /\ destination = EmptyMap
    /\ obj = EmptyMap
    /\ dpc = "idle"
    /\ drawer_name = None
    /\ graph_module = None
    /\ ignore_getattr = FALSE
    /\ dot_graphs = EmptyMap
    /\ dret = None

Constructed == mret.error # "AssertionError"

\* the attributes get_weight, get_quantized_weight and _save_to_state_dict read
HasQParams(a) == QParamNames \subseteq DOMAIN a

get_weight(a) ==
    IF ~HasQParams(a) THEN [error |-> "AttributeError", value |-> None]
    ELSE LET w == _quantize_and_dequantize_weight(FloatTensor(float32, a["weight"]),
                      a["weight_qscheme"], a["weight_dtype"], a["weight_scale"],
                      a["weight_zero_point"], a["weight_axis"])
         IN  IF w.kind = "error" THEN [error |-> w.error, value |-> None]
             ELSE [error |-> None, value |-> w]

get_quantized_weight(a) ==
    IF ~HasQParams(a) THEN [error |-> "AttributeError", value |-> None]
    ELSE LET w == _quantize_weight(FloatTensor(float32, a["weight"]),
                      a["weight_qscheme"], a["weight_dtype"], a["weight_scale"],
                      a["weight_zero_point"], a["weight_axis"])
         IN  IF w.kind = "error" THEN [error |-> w.error, value |-> None]
             ELSE [error |-> None, value |-> w]

GetWeight ==
    /\ Constructed
    /\ LET r == get_weight(attrs)
       IN  mret' = [op |-> "get_weight", error |-> r.error, value |-> r.value]
    /\ UNCHANGED <<attrs, buffers, state_dict, fvars, dvars>>

GetQuantizedWeight ==
    /\ Constructed
    /\ LET r == get_quantized_weight(attrs)
       IN  mret' = [op |-> "get_quantized_weight", error |-> r.error, value |-> r.value]
    /\ UNCHANGED <<attrs, buffers, state_dict, fvars, dvars>>

\* torch.nn.Module._save_to_state_dict, called at line 62: the parameter
\* weight and every registered buffer go into the destination
SuperSave(dest, prefix, a, bufs) ==
    [k \in DOMAIN dest \cup {<<prefix, n>> : n \in {"weight"} \cup bufs} |->
        IF k[1] = prefix /\ k[2] \in {"weight"} \cup bufs THEN a[k[2]] ELSE dest[k]]

_save_to_state_dict(dest, prefix, a, bufs) ==
    LET d == SuperSave(dest, prefix, a, bufs)
    IN  IF ~(QParamNames \subseteq DOMAIN a)
        THEN [dest |-> d, error |-> "AttributeError"]
        ELSE [dest |-> _save_weight_qparams(d, prefix, a["weight_qscheme"],
                           a["weight_dtype"], a["weight_scale"],
                           a["weight_zero_point"], a["weight_axis"]),
              error |-> None]

SaveToStateDict ==
    /\ Constructed
    /\ \E prefix \in Prefixes :
         LET r == _save_to_state_dict(EmptyMap, prefix, attrs, buffers)
         IN  /\ state_dict' = r.dest
             /\ mret' = [op |-> "_save_to_state_dict", error |-> r.error, prefix |-> prefix]
    /\ UNCHANGED <<attrs, buffers, fvars, dvars>>

\* the shape of a tensor held under name: the scales and zero points are
\* vectors of their length, the weight and the axis never change shape
Shape(name, v) == IF name \in {"weight_scale", "weight_zero_point"} THEN Len(v) ELSE 0

\* torch.nn.Module._load_from_state_dict, called at line 73 with strict
\* False: a parameter or buffer whose key is present and whose shape matches
\* is copied from the state dict, and nothing is reported
SuperLoad(a, sd, prefix, bufs) ==
    [n \in DOMAIN a |->
        IF /\ n \in {"weight"} \cup bufs
           /\ <<prefix, n>> \in DOMAIN sd
           /\ Shape(n, sd[<<prefix, n>>]) = Shape(n, a[n])
        THEN sd[<<prefix, n>>] ELSE a[n]]

_load_from_state_dict(a, sd, prefix, bufs) ==
    LET r == LoadLoop(a, sd, prefix)
    IN  IF r.error # None THEN r
        ELSE [attrs |-> SuperLoad(r.attrs, r.sd, prefix, bufs), sd |-> r.sd,
              error |-> None]

LoadFromStateDict ==
    /\ Constructed
    /\ \E prefix \in Prefixes :
         LET r == _load_from_state_dict(attrs, state_dict, prefix, buffers)
         IN  /\ attrs' = r.attrs
             /\ state_dict' = r.sd
             /\ mret' = [op |-> "_load_from_state_dict", error |-> r.error, prefix |-> prefix]
    /\ UNCHANGED <<buffers, fvars, dvars>>

NextMod ==
    \/ GetWeight
    \/ GetQuantizedWeight
    \/ SaveToStateDict
    \/ LoadFromStateDict

SpecMod == InitMod /\ [][NextMod]_vars

-----------------------------------------------------------------------------
(* FxGraphDrawer *)

\* A traced module is a tree of modules, by the path of each from the root.
\* A GraphModule holds a graph, a sequence of nodes; a leaf module holds
\* named parameters and named buffers.  A node has a name, an op, a target
\* (for call_module the dotted path of the module it invokes, for
\* call_function the qualified name of the function), its args, the names of
\* the nodes it consumes, its kwargs, its users, the names of the nodes that
\* consume it, in order, and the tensor_meta entry of its meta.  A name or
\* label built by concatenation is the sequence of the pieces.

_COLOR_MAP ==
    [placeholder |-> "\"AliceBlue\"", call_module |-> "LemonChiffon1",
     get_param |-> "Yellow2", get_attr |-> "LightGrey", output |-> "PowderBlue"]

_HASH_COLOR_MAP ==
    <<"CadetBlue1", "Coral", "DarkOliveGreen1", "DarkSeaGreen1", "GhostWhite",
      "Khaki1", "LavenderBlush1", "LightSkyBlue", "MistyRose1", "MistyRose2",
      "PaleTurquoise2", "PeachPuff1", "Salmon", "Thistle1", "Thistle3", "Wheat1">>

_WEIGHT_TEMPLATE ==
    [shape |-> "record", fillcolor |-> "Salmon", style |-> "\"filled,rounded\"",
     fontcolor |-> "#000000"]

\* node.target.split("."), for the targets of the model
Split(target) ==
    IF target = "sub.inner" THEN <<"sub", "inner">> ELSE <<target>>

Tensor(tname, dtype, shape, is_parameter) ==
    [name |-> tname, dtype |-> dtype, shape |-> shape, is_parameter |-> is_parameter]

Node(nname, op, target, args, kwargs, users, meta) ==
    [name |-> nname, op |-> op, target |-> target, args |-> args,
     kwargs |-> kwargs, users |-> users, tensor_meta |-> meta]

\* a module: the module and the name of its class, and its __constants__ with
\* their values where the class declares them
GraphModule(graph) ==
    [type |-> "GraphModule", module |-> "torch.fx.graph_module",
     class_name |-> "GraphModule", has_constants |-> FALSE, constants |-> <<>>,
     graph |-> graph]
Leaf(module, class_name, has_constants, constants, params, bufs) ==
    [type |-> "Leaf", module |-> module, class_name |-> class_name,
     has_constants |-> has_constants, constants |-> constants,
     params |-> params, bufs |-> bufs]

\* the two leaf modules: a linear layer without bias, with one parameter, and
\* a normalisation layer of the user's with a parameter and a buffer, whose
\* class declares no __constants__
Lin == Leaf("torch.nn.modules.linear", "Linear", TRUE,
            <<[name |-> "in_features", value |-> 4],
              [name |-> "out_features", value |-> 4]>>,
            <<Tensor("weight", "torch.float32", "[4, 4]", TRUE)>>, <<>>)
Bn == Leaf("__main__", "Norm", FALSE, <<>>,
           <<Tensor("weight", "torch.float32", "[4]", TRUE)>>,
           <<Tensor("running_mean", "torch.float32", "[4]", FALSE)>>)

\* node.meta.get('tensor_meta'): nothing, a TensorMetadata, a list, tuple or
\* dict of such (of a dict its values, in order), or a value of another type
NoMeta == [kind |-> "None"]
TensorMetadata(dtype, shape, requires_grad, stride, is_quantized, qparams) ==
    [kind |-> "TensorMetadata", dtype |-> dtype, shape |-> shape,
     requires_grad |-> requires_grad, stride |-> stride,
     is_quantized |-> is_quantized, qparams |-> qparams]
Container(kind, items) == [kind |-> kind, items |-> items]

FloatMeta == TensorMetadata("torch.float32", <<4, 4>>, FALSE, <<4, 1>>, FALSE, EmptyMap)
PerTensorMeta ==
    TensorMetadata("torch.quint8", <<4>>, FALSE, <<1>>, TRUE,
        [k \in {"qscheme", "scale", "zero_point"} |->
            IF k = "qscheme" THEN per_tensor_affine
            ELSE IF k = "scale" THEN "1.0" ELSE "0"])
PerChannelMeta ==
    TensorMetadata("torch.qint8", <<2, 2>>, FALSE, <<2, 1>>, TRUE,
        [k \in {"qscheme", "scale", "zero_point", "axis"} |->
            IF k = "qscheme" THEN per_channel_affine
            ELSE IF k = "scale" THEN "[1.0, 2.0]"
            ELSE IF k = "zero_point" THEN "[0, 0]" ELSE "0"])
\* hand-built entries: a qscheme _stringify_tensor_meta does not know, and
\* qparams without a qscheme
OtherSchemeMeta ==
    TensorMetadata("torch.quint8", <<4>>, FALSE, <<1>>, TRUE,
        [k \in {"qscheme"} |-> None])
NoSchemeMeta ==
    TensorMetadata("torch.quint8", <<4>>, FALSE, <<1>>, TRUE, EmptyMap)

Metas ==
    { NoMeta, FloatMeta, PerTensorMeta,
      Container("list", <<FloatMeta, PerChannelMeta>>),
      Container("tuple", <<Container("dict", <<PerTensorMeta>>), NoMeta>>),
      Container("list", <<FloatMeta, [kind |-> "int"], FloatMeta>>),
      [kind |-> "int"], OtherSchemeMeta, NoSchemeMeta }

InnerGraph ==
    <<Node("x", "placeholder", "x", <<>>, <<>>, <<"output">>, NoMeta),
      Node("output", "output", "output", <<"x">>, <<>>, <<>>, NoMeta)>>

\* the graph of the nested module sub: it invokes nothing, its own nested
\* module inner, or a module that does not exist
SubGraphs ==
    { <<Node("x", "placeholder", "x", <<>>, <<>>, <<"output">>, NoMeta),
        Node("output", "output", "output", <<"x">>, <<>>, <<>>, NoMeta)>> }
    \cup
    { <<Node("x", "placeholder", "x", <<>>, <<>>, <<"m">>, NoMeta),
        Node("m", "call_module", t, <<"x">>, <<>>, <<"output">>, NoMeta),
        Node("output", "output", "output", <<"m">>, <<>>, <<>>, NoMeta)>> :
        t \in {"inner", "missing"} }

\* what a node between the input and the output may be
BodyKinds ==
    [op : {"get_attr"}, target : {"attr"}, kwargs : {<<>>}]
    \cup [op : {"call_module"}, target : {"sub", "lin", "bn", "sub.inner"},
          kwargs : {<<>>}]
    \cup [op : {"call_function"}, target : {"torch.add"},
          kwargs : {<<[key |-> "alpha", value |-> 2]>>}]
    \cup [op : {"call_method"}, target : {"tanh"}, kwargs : {<<>>}]

BodyNames == <<"n1", "n2", "n3", "n4">>

\* the root graph with the body nodes ks: node i is consumed by the next node
\* if "next" is in uc[i], and the input also by the output node if "last" is
\* in uc[1]; the args of a node are the nodes it consumes, and the input
\* carries the tensor_meta
RootGraph(ks, uc, meta) ==
    LET n == Len(ks) + 2
        NameAt(i) == IF i = 1 THEN "x" ELSE IF i = n THEN "output" ELSE BodyNames[i - 1]
        UsersAt(i) ==
            IF i = n THEN <<>>
            ELSE (IF "next" \in uc[i] THEN <<NameAt(i + 1)>> ELSE <<>>)
                 \o (IF "last" \in uc[i] /\ i = 1 /\ i + 1 # n THEN <<NameAt(n)>> ELSE <<>>)
        ArgsAt(i) ==
            IF i = 1 THEN <<>>
            ELSE (IF "next" \in uc[i - 1] THEN <<NameAt(i - 1)>> ELSE <<>>)
                 \o (IF "last" \in uc[1] /\ i = n /\ n # 2 THEN <<NameAt(1)>> ELSE <<>>)
    IN  [i \in 1..n |->
            IF i = 1 THEN Node("x", "placeholder", "x", <<>>, <<>>, UsersAt(i), meta)
            ELSE IF i = n
            THEN Node("output", "output", "output", ArgsAt(i), <<>>, <<>>, NoMeta)
            ELSE Node(NameAt(i), ks[i - 1].op, ks[i - 1].target, ArgsAt(i),
                      ks[i - 1].kwargs, UsersAt(i), NoMeta)]

UserChoices(k) ==
    {f \in [1..(k + 1) -> SUBSET {"next", "last"}] :
        \A i \in 2..(k + 1) : "last" \notin f[i]}

\* every body up to MaxBody nodes without tensor_meta, and every tensor_meta
\* on the input of the bodies of at most one node
RootGraphs ==
    UNION { UNION { { RootGraph(ks, uc, NoMeta) : uc \in UserChoices(k) } :
                    ks \in [1..k -> BodyKinds] } :
            k \in 0..MaxBody }
    \cup
    UNION { UNION { { RootGraph(ks, uc, m) : uc \in UserChoices(k), m \in Metas } :
                    ks \in [1..k -> BodyKinds] } :
            k \in 0..1 }

Tree(rootGraph, subGraph) ==
    [path \in {<<>>, <<"sub">>, <<"sub", "inner">>, <<"lin">>, <<"bn">>} |->
        IF path = <<>> THEN GraphModule(rootGraph)
        ELSE IF path = <<"sub">> THEN GraphModule(subGraph)
        ELSE IF path = <<"sub", "inner">> THEN GraphModule(InnerGraph)
        ELSE IF path = <<"lin">> THEN Lin
        ELSE Bn]

Trees == { Tree(r, g) : r \in RootGraphs, g \in SubGraphs }

\* the walk of _get_leaf_node from the module at path along the atoms
RECURSIVE Walk(_, _, _)
Walk(tree, path, atoms) ==
    IF atoms = <<>> THEN [error |-> None, path |-> path]
    ELSE IF Append(path, Head(atoms)) \notin DOMAIN tree
    THEN [error |-> "RuntimeError", path |-> path]
    ELSE Walk(tree, Append(path, Head(atoms)), Tail(atoms))

\* the module a call_module node invokes, as its path, or the RuntimeError
_get_leaf_node(tree, path, node) == Walk(tree, path, Split(node.target))

\* int(hashlib.md5(target_name.encode()).hexdigest()[:8], 16),
\* for the two targets of the model that _COLOR_MAP does not colour
Md5Head(target_name) ==
    CASE target_name = "torch.add" -> 630376357
      [] target_name = "tanh" -> 1544403875

\* node._pretty_print_target(node.target): a string is itself, the functions
\* of the model print as their qualified names
_pretty_print_target(target) == target

_get_node_style(node) ==
    [shape |-> "record",
     fillcolor |-> IF node.op \in DOMAIN _COLOR_MAP
                   THEN _COLOR_MAP[node.op]
                   ELSE _HASH_COLOR_MAP[(Md5Head(_pretty_print_target(node.target))
                                         % Len(_HASH_COLOR_MAP)) + 1],
     style |-> "\"filled,rounded\"", fontcolor |-> "#000000"]

\* a label, or the error that ended its construction
Label(label) == [error |-> None, label |-> label]
LabelError(error) == [error |-> error, label |-> <<>>]

\* sep.join(items), the items sequences of pieces
RECURSIVE Join(_, _)
Join(items, sep) ==
    IF items = <<>> THEN <<>>
    ELSE IF Len(items) = 1 THEN items[1]
    ELSE items[1] \o <<sep>> \o Join(Tail(items), sep)

\* str of a tuple of integers
StrTuple(t) ==
    IF Len(t) = 0 THEN <<"()">>
    ELSE IF Len(t) = 1 THEN <<"(", ToString(t[1]), ",)">>
    ELSE <<"(">> \o Join([k \in 1..Len(t) |-> <<ToString(t[k])>>], ", ") \o <<")">>

StrBool(b) == IF b THEN "True" ELSE "False"

\* torch.typename of a module
typename(module) == <<module.module, ".", module.class_name>>

\* _typename of the target of a node that is no call_module: a string is
\* itself, a function gives its qualified name
_typename(target) == <<target>>

\* _format_arg of a node, and of an integer
_format_arg(arg) == <<"%", arg>>

\* _get_str_for_args_kwargs of a tuple of nodes and of a dict of integers
ArgsStr(args) ==
    <<"(\\l">> \o Join([k \in 1..Len(args) |-> _format_arg(args[k])], ",\\n")
    \o <<",\\n)">>
KwargsStr(kwargs) ==
    <<"\\{\\l">>
    \o Join([k \in 1..Len(kwargs) |->
                <<kwargs[k].key, ": ", ToString(kwargs[k].value)>>], ",\\n")
    \o <<",\\n\\}">>

_stringify_tensor_meta(tm) ==
    LET head == <<"|", "dtype", "=", tm.dtype, "\\n">>
                \o <<"|", "shape", "=">> \o StrTuple(tm.shape) \o <<"\\n">>
                \o <<"|", "requires_grad", "=", StrBool(tm.requires_grad), "\\n">>
                \o <<"|", "stride", "=">> \o StrTuple(tm.stride) \o <<"\\n">>
        q == tm.qparams
    IN  IF ~tm.is_quantized THEN Label(head)
        ELSE IF "qscheme" \notin DOMAIN q THEN LabelError("AssertionError")
        ELSE IF q["qscheme"] \in {per_tensor_affine, per_tensor_symmetric}
        THEN Label(head
                   \o <<"|", "q_scale", "=", q["scale"], "\\n">>
                   \o <<"|", "q_zero_point", "=", q["zero_point"], "\\n">>
                   \o <<"|", "qscheme", "=", q["qscheme"], "\\n">>)
        ELSE IF q["qscheme"] \in {per_channel_affine, "torch.per_channel_symmetric",
                                  per_channel_affine_float_qparams}
        THEN Label(head
                   \o <<"|", "q_per_channel_scale", "=", q["scale"], "\\n">>
                   \o <<"|", "q_per_channel_zero_point", "=", q["zero_point"], "\\n">>
                   \o <<"|", "q_per_channel_axis", "=", q["axis"], "\\n">>
                   \o <<"|", "qscheme", "=", q["qscheme"], "\\n">>)
        ELSE LabelError("RuntimeError")

RECURSIVE _tensor_meta_to_label(_)
_tensor_meta_to_label(tm) ==
    IF tm.kind = "None" THEN Label(<<>>)
    ELSE IF tm.kind = "TensorMetadata" THEN _stringify_tensor_meta(tm)
    ELSE IF tm.kind \in {"list", "dict", "tuple"}
    THEN LET result[k \in 0..Len(tm.items)] ==
                 IF k = 0 THEN Label(<<>>)
                 ELSE IF result[k - 1].error # None THEN result[k - 1]
                 ELSE LET item == _tensor_meta_to_label(tm.items[k])
                      IN  IF item.error # None THEN item
                          ELSE Label(result[k - 1].label \o item.label)
         IN  result[Len(tm.items)]
    ELSE LabelError("RuntimeError")

\* _get_node_label (lines 132-165) of a node of the graph of the module at path
_get_node_label(tree, path, node) ==
    LET label0 == <<"{", "name=%", node.name, "|op_code=", node.op, "\n">>
        leaf == _get_leaf_node(tree, path, node)
        leaf_module == tree[leaf.path]
        extra == IF leaf_module.has_constants
                 THEN Join([k \in 1..Len(leaf_module.constants) |->
                               <<leaf_module.constants[k].name, ": ",
                                 ToString(leaf_module.constants[k].value)>>], "\\n")
                 ELSE <<>>
        label1 ==
            IF node.op = "call_module"
            THEN label0 \o <<"\\n">> \o typename(leaf_module) \o <<"\\n|">>
                 \o extra \o <<"\\n">>
            ELSE label0 \o <<"|target=">> \o _typename(node.target) \o <<"\\n">>
                 \o (IF Len(node.args) > 0
                     THEN <<"|args=">> \o ArgsStr(node.args) \o <<"\\l">> ELSE <<>>)
                 \o (IF Len(node.kwargs) > 0
                     THEN <<"|kwargs=">> \o KwargsStr(node.kwargs) \o <<"\\l">> ELSE <<>>)
                 \o <<"|num_users=", ToString(Len(node.users)), "\\n">>
        meta == _tensor_meta_to_label(node.tensor_meta)
    IN  IF node.op = "call_module" /\ leaf.error # None THEN LabelError(leaf.error)
        ELSE IF meta.error # None THEN meta
        ELSE Label(label1 \o meta.label \o <<"}">>)

_get_tensor_label(t) == <<t.dtype, t.shape, "\\n">>

DotNode(dname, label, style) == [name |-> dname, label |-> label, style |-> style]

\* the name of the auxiliary node of tensor t of the module node invokes
PName1(node, t) == <<node.name, ".", t.name>>

\* label1 of get_module_params_or_buffers (lines 245-249): the conditional
\* expression binds looser than +, so the name and the marker belong to the
\* parameter's branch alone
Label1(node, t) ==
    IF t.is_parameter
    THEN PName1(node, t) \o <<"|op_code=get_", "parameter">>
    ELSE <<"buffer", "\\l">>

\* the parameters alone, the buffers forgotten
ParamsOnly(leaf) == leaf.params

\* named_parameters() then named_buffers() of a leaf module
ParamsOrBuffers(leaf) == leaf.params \o leaf.bufs

\* get_module_params_or_buffers: the auxiliary nodes and their edges
AuxNodes(node, leaf) ==
    [k \in 1..Len(ParamsOrBuffers(leaf)) |->
        LET t == ParamsOrBuffers(leaf)[k]
        IN  DotNode(PName1(node, t),
                    <<"{">> \o Label1(node, t) \o _get_tensor_label(t) \o <<"}">>,
                    _WEIGHT_TEMPLATE)]

AuxEdges(node, leaf) ==
    [k \in 1..Len(ParamsOrBuffers(leaf)) |->
        <<PName1(node, ParamsOrBuffers(leaf)[k]), <<node.name>>>>]

Skipped(node, ignore) == ignore /\ node.op = "get_attr"

\* the first loop of _to_dot (lines 230-262), from node i on
RECURSIVE NodePass(_, _, _, _, _)
NodePass(tree, path, ignore, i, dot) ==
    LET graph == tree[path].graph
    IN  IF i > Len(graph) THEN dot
        ELSE LET node == graph[i]
                 style == _get_node_style(node)
                 label == _get_node_label(tree, path, node)
                 leaf_module == tree[_get_leaf_node(tree, path, node).path]
                 dot1 == [dot EXCEPT !.nodes =
                             Append(@, DotNode(<<node.name>>, label.label, style))]
             IN  IF Skipped(node, ignore)
                 THEN NodePass(tree, path, ignore, i + 1, dot)
                 ELSE IF label.error # None
                 THEN [dot EXCEPT !.error = label.error]
                 ELSE IF node.op # "call_module"
                 THEN NodePass(tree, path, ignore, i + 1, dot1)
                 ELSE IF leaf_module.type # "GraphModule"
                 THEN NodePass(tree, path, ignore, i + 1,
                          [dot1 EXCEPT !.nodes = @ \o AuxNodes(node, leaf_module),
                                       !.edges = @ \o AuxEdges(node, leaf_module)])
                 ELSE NodePass(tree, path, ignore, i + 1, dot1)

\* the second loop of _to_dot (lines 264-269), from node i on
RECURSIVE EdgePass(_, _, _, _)
EdgePass(graph, ignore, i, dot) ==
    IF i > Len(graph) THEN dot
    ELSE IF Skipped(graph[i], ignore) THEN EdgePass(graph, ignore, i + 1, dot)
    ELSE EdgePass(graph, ignore, i + 1,
             [dot EXCEPT !.edges = @ \o
                 [k \in 1..Len(graph[i].users) |->
                     <<<<graph[i].name>>, <<graph[i].users[k]>>>>]])

\* the pydot graph of the GraphModule at path, or the error that ended it
_to_dot(tree, path, gname, ignore) ==
    LET dot0 == [error |-> None, name |-> gname, nodes |-> <<>>, edges |-> <<>>]
        dot1 == NodePass(tree, path, ignore, 1, dot0)
    IN  IF dot1.error # None THEN dot1
        ELSE EdgePass(tree[path].graph, ignore, 1, dot1)

\* the loop of __init__ keying each nested graph by the name of the invoking
\* node instead of its target
RECURSIVE InitLoopByNodeName(_, _, _, _, _)
InitLoopByNodeName(tree, gname, ignore, i, r) ==
    LET graph == tree[<<>>].graph
    IN  IF i > Len(graph) THEN r
        ELSE LET node == graph[i]
                 leaf_node == _get_leaf_node(tree, <<>>, node)
                 key == <<gname, "_", node.name>>
                 sub == _to_dot(tree, leaf_node.path, key, ignore)
             IN  IF node.op # "call_module"
                 THEN InitLoopByNodeName(tree, gname, ignore, i + 1, r)
                 ELSE IF leaf_node.error # None
                 THEN [r EXCEPT !.error = leaf_node.error]
                 ELSE IF tree[leaf_node.path].type # "GraphModule"
                 THEN InitLoopByNodeName(tree, gname, ignore, i + 1, r)
                 ELSE IF sub.error # None
                 THEN [r EXCEPT !.error = sub.error]
                 ELSE InitLoopByNodeName(tree, gname, ignore, i + 1,
                          [r EXCEPT !.dot_graphs = MapPut(@, key, sub)])

\* the loop of __init__ (lines 67-76) over the root's nodes, from node i on
RECURSIVE InitLoop(_, _, _, _, _)
InitLoop(tree, gname, ignore, i, r) ==
    LET graph == tree[<<>>].graph
    IN  IF i > Len(graph) THEN r
        ELSE LET node == graph[i]
                 leaf_node == _get_leaf_node(tree, <<>>, node)
                 key == <<gname, "_", node.target>>
                 sub == _to_dot(tree, leaf_node.path, key, ignore)
             IN  IF node.op # "call_module"
                 THEN InitLoop(tree, gname, ignore, i + 1, r)
                 ELSE IF leaf_node.error # None
                 THEN [r EXCEPT !.error = leaf_node.error]
                 ELSE IF tree[leaf_node.path].type # "GraphModule"
                 THEN InitLoop(tree, gname, ignore, i + 1, r)
                 ELSE IF sub.error # None
                 THEN [r EXCEPT !.error = sub.error]
                 ELSE InitLoop(tree, gname, ignore, i + 1,
                          [r EXCEPT !.dot_graphs = MapPut(@, key, sub)])

\* FxGraphDrawer.__init__: self._dot_graphs, or the error
FxGraphDrawerInit(tree, gname, ignore) ==
    LET root == _to_dot(tree, <<>>, <<gname>>, ignore)
    IN  IF root.error # None
        THEN [error |-> root.error, dot_graphs |-> EmptyMap]
        ELSE InitLoop(tree, gname, ignore, 1,
                 [error |-> None, dot_graphs |-> MapPut(EmptyMap, <<gname>>, root)])

InitDraw ==
    /\ dpc = "new"
    /\ drawer_name = "g"
    /\ graph_module \in Trees
    /\ ignore_getattr \in BOOLEAN
    /\ dot_graphs = EmptyMap
    /\ dret = None
    /\ fpc = "idle"
    /\ call = NoCall
    /\ fret = None
    /\ destination = EmptyMap
    /\ obj = EmptyMap
    /\ attrs = EmptyMap
    /\ buffers = {}
    /\ state_dict = EmptyMap
    /\ mret = None

Construct ==
    /\ dpc = "new"
    /\ LET r == FxGraphDrawerInit(graph_module, drawer_name, ignore_getattr)
       IN  /\ dot_graphs' = r.dot_graphs
           /\ dpc' = IF r.error = None THEN "drawn" ELSE "failed"
    /\ UNCHANGED <<drawer_name, graph_module, ignore_getattr, dret, fvars, mvars>>

\* get_dot_graph: the key looked up in self._dot_graphs, and whether it is there
get_dot_graph(graphs, self_name, submod_name) ==
    LET key == IF submod_name = None THEN <<self_name>>
               ELSE <<self_name, "_", submod_name>>
    IN  IF key \in DOMAIN graphs
        THEN [error |-> None, graph |-> graphs[key].name]
        ELSE [error |-> "KeyError", graph |-> key]

GetDotGraph ==
    /\ dpc = "drawn"
    /\ \E submod_name \in {None, "sub"} :
         dret' = get_dot_graph(dot_graphs, drawer_name, submod_name)
    /\ UNCHANGED <<dpc, drawer_name, graph_module, ignore_getattr, dot_graphs, fvars, mvars>>

NextDraw ==
    \/ Construct
    \/ GetDotGraph

SpecDraw == InitDraw /\ [][NextDraw]_vars

-----------------------------------------------------------------------------
(* Properties of the functions of utils.py, under SpecFn *)

IntDTypes == {quint8, qint8}
QuantizableSchemes == {per_tensor_affine, per_channel_affine,
                       per_channel_affine_float_qparams}

\* the keys saveParams is to write for a scheme
ExpectedSavedNames(qscheme) ==
    {"weight_qscheme", "weight_dtype"}
    \cup (IF qscheme # None THEN {"weight_scale", "weight_zero_point"} ELSE {})
    \cup (IF qscheme = per_channel_affine THEN {"weight_axis"} ELSE {})

\* C1: save on an empty map, then load and assign exactly the consumed keys
\* onto a fresh object, gives an object equal to the saved parameters in every
\* field meaningful for the scheme: scheme and dtype, scale and zero point
\* unless the scheme is None, and the axis for the per-channel schemes.
C1_SaveLoadRoundTrip ==
    (fpc = "loaded" /\ call.dest = EmptyMap) =>
        LET p == call.qparams
        IN  /\ fret = None
            /\ {"weight_qscheme", "weight_dtype"} \subseteq DOMAIN obj
            /\ obj["weight_qscheme"] = p.qscheme
            /\ obj["weight_dtype"] = p.dtype
            /\ p.qscheme # None =>
                 /\ {"weight_scale", "weight_zero_point"} \subseteq DOMAIN obj
                 /\ obj["weight_scale"] = p.scale
                 /\ obj["weight_zero_point"] = p.zero_point
            /\ p.qscheme \in PerChannelSchemes =>
                 /\ "weight_axis" \in DOMAIN obj
                 /\ obj["weight_axis"] = p.axis

\* C2: quantize dispatches on scheme and target type: per-tensor-affine with
\* an 8-bit integer type quantizes every element with the one scale and zero
\* point, with float16 it casts, with any other type it raises the
\* unsupported-type error; the two per-channel schemes with an 8-bit integer
\* type quantize every element with the scale and zero point of its channel
\* along the axis, and raise the unsupported-type error for any other type,
\* float16 included; every other scheme, None included, raises the
\* unsupported-scheme error whatever the type.
C2_QuantizeDispatch ==
    fpc = "quantized" =>
        LET p == call.qparams
            w == call.weight
        IN  /\ (p.qscheme = per_tensor_affine /\ p.dtype \in IntDTypes) =>
                 /\ fret.kind = "quantized"
                 /\ fret.qscheme = per_tensor_affine
                 /\ fret.dtype = p.dtype
                 /\ \A i \in Rows, j \in Cols :
                      fret.int_repr[i][j] =
                        Clamp(RoundHalfEven(w[i][j], p.scale[1]) + p.zero_point[1],
                              QMin(p.dtype), QMax(p.dtype))
            /\ (p.qscheme = per_tensor_affine /\ p.dtype = float16) =>
                 /\ fret.kind = "float"
                 /\ fret.dtype = float16
                 /\ \A i \in Rows, j \in Cols : fret.data[i][j] = ToHalf(w[i][j])
            /\ (p.qscheme = per_tensor_affine /\ p.dtype \notin IntDTypes \cup {float16}) =>
                 fret = Raise("Unsupported dtype")
            /\ (p.qscheme \in PerChannelSchemes /\ p.dtype \in IntDTypes) =>
                 /\ fret.kind = "quantized"
                 /\ fret.qscheme = per_channel_affine
                 /\ fret.dtype = p.dtype
                 /\ fret.axis = p.axis
                 /\ \A i \in Rows, j \in Cols :
                      LET c == IF p.axis = 0 THEN i ELSE j
                      IN  fret.int_repr[i][j] =
                            Clamp(RoundHalfEven(w[i][j], p.scale[c]) + p.zero_point[c],
                                  QMin(p.dtype), QMax(p.dtype))
            /\ (p.qscheme \in PerChannelSchemes /\ p.dtype \notin IntDTypes) =>
                 fret = Raise("Unsupported dtype")
            /\ p.qscheme \notin QuantizableSchemes =>
                 fret = Raise("Unsupported qscheme")

\* a per-channel-affine-float-params call along axis 1 with its result, element
\* by element: ties go to even, and 2049 / 2 + 1 is clamped to 127
C2_Witness ==
    /\ fpc = "quantized"
    /\ call.qparams = [qscheme |-> per_channel_affine_float_qparams, dtype |-> qint8,
                       scale |-> <<2, 1>>, zero_point |-> <<1, 0>>, axis |-> 1]
    /\ call.weight = <<<<-5, 3>>, <<2049, 3>>>>
    /\ fret.kind = "quantized"
    /\ fret.int_repr = <<<<-1, 3>>, <<127, 3>>>>

\* C3: quantizeAndDequantize equals dequantize of quantize whenever the scheme
\* is one of the three quantizable ones and quantize succeeds, and returns the
\* weight unchanged, with no error, when the scheme is None.
C3_FakeQuantize ==
    fpc = "fake_quantized" =>
        LET p == call.qparams
            w == FloatTensor(float32, call.weight)
            q == _quantize_weight(w, p.qscheme, p.dtype, p.scale, p.zero_point, p.axis)
        IN  /\ (p.qscheme \in QuantizableSchemes /\ q.kind # "error") =>
                 fret = dequantize(q)
            /\ p.qscheme = None => fret = w

\* a per-tensor-affine call with its result: -5 / 2 rounds to -2, plus 1 is
\* clamped to 0 and comes back as -2; 3 comes back as 4; 2049 as 508
C3_Witness ==
    /\ fpc = "fake_quantized"
    /\ call.qparams = [qscheme |-> per_tensor_affine, dtype |-> quint8,
                       scale |-> <<2>>, zero_point |-> <<1>>, axis |-> 0]
    /\ call.weight = <<<<-5, 3>>, <<2049, 3>>>>
    /\ fret = FloatTensor(float32, <<<<-2, 4>>, <<508, 4>>>>)

\* C5: saveParams writes, under the prefix, exactly scheme and dtype, scale
\* and zero point if and only if the scheme is not None, and the axis if and
\* only if the scheme is per-channel-affine; each written key holds the
\* parameter's value and every other entry of the destination is unchanged.
C5_SaveFrame ==
    fpc = "saved" =>
        LET p == call.qparams
            written == {<<call.prefix, n>> : n \in ExpectedSavedNames(p.qscheme)}
        IN  /\ DOMAIN destination = DOMAIN call.dest \cup written
            /\ \A k \in DOMAIN call.dest \ written : destination[k] = call.dest[k]
            /\ \A k \in written :
                 destination[k] = Persisted(p, call.prefix)[k]

\* a per-channel-affine-float-params save into a map that held an axis under
\* the same prefix: the old axis is still there
C5_Witness ==
    /\ fpc = "saved"
    /\ call.qparams.qscheme = per_channel_affine_float_qparams
    /\ call.qparams.axis = 0
    /\ <<call.prefix, "weight_axis">> \in DOMAIN call.dest
    /\ destination[<<call.prefix, "weight_axis">>] = 1
    /\ <<call.prefix, "weight_scale">> \in DOMAIN destination

-----------------------------------------------------------------------------
(* Properties of the module, under SpecMod *)

\* C4: a load that fails on a missing key leaves every attribute of the
\* module as it was and removes no key from the state dict.
C4_LoadAtomic ==
    [][(mret'.op = "_load_from_state_dict" /\ mret'.error = "KeyError")
         => (attrs' = attrs /\ state_dict' = state_dict)]_vars

\* C6: a constructed module always holds an axis, and after construction
\* with the per-channel-affine scheme it is the axis supplied.
C6_AxisAlwaysPresent ==
    Constructed =>
        /\ "weight_axis" \in DOMAIN attrs
        /\ (/\ mret.op = "__init__"
            /\ mret.weight_qparams # NoQParams
            /\ mret.weight_qparams.qscheme = per_channel_affine)
              => attrs["weight_axis"] = mret.weight_qparams.axis

-----------------------------------------------------------------------------
(* Properties of FxGraphDrawer, under SpecDraw *)

Range(seq) == {seq[i] : i \in DOMAIN seq}
NoDuplicates(seq) == \A a, b \in DOMAIN seq : a # b => seq[a] # seq[b]

\* the dotted path of a module
Dotted(path) == IF Len(path) = 2 THEN "sub.inner" ELSE path[1]

\* the traceable modules the graph of the module at path invokes
Invoked(tree, path) ==
    {_get_leaf_node(tree, path, n).path :
        n \in {m \in Range(tree[path].graph) :
                 /\ m.op = "call_module"
                 /\ _get_leaf_node(tree, path, m).error = None
                 /\ tree[_get_leaf_node(tree, path, m).path].type = "GraphModule"}}

\* the traceable modules reachable from the root through any number of graphs
RECURSIVE ReachableFrom(_, _, _)
ReachableFrom(tree, seen, depth) ==
    LET more == seen \cup UNION {Invoked(tree, q) : q \in seen \cup {<<>>}}
    IN  IF depth = 0 \/ more = seen THEN seen ELSE ReachableFrom(tree, more, depth - 1)

Reachable(tree) == ReachableFrom(tree, {}, Cardinality(DOMAIN tree))

\* the module a rendered graph was made from
SourcePath(key) == IF Len(key) = 1 THEN <<>> ELSE Split(key[3])

\* the call_module nodes of the graph at path that invoke a leaf module
LeafCalls(tree, path) ==
    {n \in Range(tree[path].graph) :
        /\ n.op = "call_module"
        /\ _get_leaf_node(tree, path, n).error = None
        /\ tree[_get_leaf_node(tree, path, n).path].type = "Leaf"}

LeafOf(tree, path, n) == tree[_get_leaf_node(tree, path, n).path]

\* C7, as claimed: the keys of the rendered map are the root's name and one
\* key per traceable module reachable through invoke-submodule nodes, those
\* invoked only from a nested module's graph included.
C7_KeysOfReachable ==
    dpc = "drawn" =>
        DOMAIN dot_graphs =
            {<<drawer_name>>}
            \cup {<<drawer_name, "_", Dotted(q)>> : q \in Reachable(graph_module)}

\* C7, amended: the keys of the rendered map are the root's name and one key,
\* the name then the node's target, per call_module node of the root's own
\* graph whose target is a traceable module; a leaf target gives no key, and
\* neither does a traceable module invoked only from a nested module's graph.
C7_KeysOfRootGraph ==
    dpc = "drawn" =>
        DOMAIN dot_graphs =
            {<<drawer_name>>}
            \cup {<<drawer_name, "_", n.target>> :
                    n \in {m \in Range(graph_module[<<>>].graph) :
                             /\ m.op = "call_module"
                             /\ Split(m.target) \in DOMAIN graph_module
                             /\ graph_module[Split(m.target)].type = "GraphModule"}}

\* the root invokes sub and a leaf, sub invokes inner: the map holds the
\* root's graph and sub's, and none for inner or the leaf
C7_Witness ==
    /\ dpc = "drawn"
    /\ \E n \in Range(graph_module[<<>>].graph) : n.op = "call_module" /\ n.target = "sub"
    /\ \E n \in Range(graph_module[<<>>].graph) : n.op = "call_module" /\ n.target = "lin"
    /\ \E n \in Range(graph_module[<<"sub">>].graph) :
          n.op = "call_module" /\ n.target = "inner"
    /\ DOMAIN dot_graphs = {<<"g">>, <<"g", "_", "sub">>}

\* C8: with ignore_getattr false every rendered graph holds exactly one node
\* per node of its source graph and one auxiliary node per parameter or buffer
\* of each call_module node that invokes a leaf module, and exactly one edge
\* from each node to each of its users and one from each auxiliary node into
\* its invoking node; a call_module node of a traceable module gets none.
C8_NodesAndEdges ==
    (dpc = "drawn" /\ ~ignore_getattr) =>
        \A key \in DOMAIN dot_graphs :
            LET d == dot_graphs[key]
                path == SourcePath(key)
                g == graph_module[path].graph
                aux == {<<n, t>> \in
                          LeafCalls(graph_module, path)
                          \X (Range(Lin.params) \cup Range(Bn.params) \cup Range(Bn.bufs)) :
                            \/ <<n, t>>[2] \in Range(LeafOf(graph_module, path, <<n, t>>[1]).params)
                            \/ <<n, t>>[2] \in Range(LeafOf(graph_module, path, <<n, t>>[1]).bufs)}
                names == [k \in DOMAIN d.nodes |-> d.nodes[k].name]
            IN  /\ NoDuplicates(names)
                /\ Range(names) = {<<n.name>> : n \in Range(g)}
                                  \cup {<<a[1].name, ".", a[2].name>> : a \in aux}
                /\ Len(names) = Len(g) + Cardinality(aux)
                /\ NoDuplicates(d.edges)
                /\ Range(d.edges) =
                     UNION {{<<<<n.name>>, <<u>>>> : u \in Range(n.users)} : n \in Range(g)}
                     \cup {<<<<a[1].name, ".", a[2].name>>, <<a[1].name>>>> : a \in aux}

\* input, a leaf with one parameter, output: four nodes and three edges
C8_Witness ==
    /\ dpc = "drawn"
    /\ ~ignore_getattr
    /\ graph_module[<<>>].graph =
         <<Node("x", "placeholder", "x", <<>>, <<>>, <<"n1">>, NoMeta),
           Node("n1", "call_module", "lin", <<"x">>, <<>>, <<"output">>, NoMeta),
           Node("output", "output", "output", <<"n1">>, <<>>, <<>>, NoMeta)>>
    /\ [k \in 1..4 |-> dot_graphs[<<"g">>].nodes[k].name] =
         <<(<<"x">>), (<<"n1">>), (<<"n1", ".", "weight">>), (<<"output">>)>>
    /\ Len(dot_graphs[<<"g">>].nodes) = 4
    /\ Range(dot_graphs[<<"g">>].edges) =
         { <<(<<"x">>), (<<"n1">>)>>, <<(<<"n1">>), (<<"output">>)>>,
           <<(<<"n1", ".", "weight">>), (<<"n1">>)>> }
    /\ Len(dot_graphs[<<"g">>].edges) = 3

\* C9: the label of every auxiliary node starts with its qualified name (the
\* invoking node's name, a dot, the tensor's name) and the marker, get_parameter
\* for a parameter and get_buffer for a buffer, and ends with the tensor's
\* dtype and shape.
C9_AuxLabels ==
    dpc = "drawn" =>
        \A key \in DOMAIN dot_graphs :
          \A n \in LeafCalls(graph_module, SourcePath(key)) :
            \A t \in Range(LeafOf(graph_module, SourcePath(key), n).params)
                     \cup Range(LeafOf(graph_module, SourcePath(key), n).bufs) :
              \E dn \in Range(dot_graphs[key].nodes) :
                 /\ dn.name = <<n.name, ".", t.name>>
                 /\ Len(dn.label) >= 10
                 /\ SubSeq(dn.label, 1, 6) =
                      <<"{", n.name, ".", t.name, "|op_code=get_",
                        IF t.is_parameter THEN "parameter" ELSE "buffer">>
                 /\ SubSeq(dn.label, Len(dn.label) - 3, Len(dn.label)) =
                      <<t.dtype, t.shape, "\\n", "}">>

\* C10: both ends of every edge of a rendered graph are nodes of that graph,
\* whatever ignore_getattr is.
C10_EdgeClosure ==
    dpc = "drawn" =>
        \A key \in DOMAIN dot_graphs :
            \A e \in Range(dot_graphs[key].edges) :
                /\ e[1] \in {dn.name : dn \in Range(dot_graphs[key].nodes)}
                /\ e[2] \in {dn.name : dn \in Range(dot_graphs[key].nodes)}

====
